---- MODULE Spec2Model ----
(***************************************************************************)
(* Model of the Cortex slab allocator (crates/cortex-core/src/slab.rs).    *)
(*                                                                         *)
(* The slab owns a byte region split into BLOCK_SIZE-byte blocks, a count  *)
(* of blocks and a freelist (a Vec used as a stack).  Every public method  *)
(* of Slab is an operator computing the method's result from the slab's    *)
(* fields and the arguments, and an action applying it to the state.       *)
(* Bytes are the integers 0..255, a slice or Vec is a sequence, and the    *)
(* region is one flat sequence addressed by 0-based offsets as in the      *)
(* source.                                                                 *)
(***************************************************************************)
EXTENDS Integers, Sequences, FiniteSets, TLC

VARIABLES
    region,        \* Slab.region: Box<[u8]>, a sequence of bytes
    total_blocks,  \* Slab.total_blocks
    free_list,     \* Slab.free_list: Vec<usize>, last element = top of stack
    call,          \* the last method call and its arguments
    ret,           \* what that call returned
    live,          \* history: indices returned by allocate, not yet deallocated
    fresh_allocs,  \* history: successful allocations so far while no block has
                   \* been deallocated since new; NotFresh afterwards
    stored,        \* history: for each index in live, the <<key, value, ttl>>
                   \* its allocate was called with
    inflight,      \* a deallocate in progress, when its steps are interleaved
    reuse          \* history kept by a caller that tracks the reuse of blocks

vars == <<region, total_blocks, free_list, call, ret, live, fresh_allocs,
          stored, inflight, reuse>>

----------------------------------------------------------------------------
\* Bounds of the model.

\* Largest number of blocks of a slab under check.
MaxBlocks == 2

----------------------------------------------------------------------------
\* Layout constants.

TTL_OFFSET == 0
TTL_SIZE == 8
KEY_LEN_OFFSET == TTL_OFFSET + TTL_SIZE
VAL_LEN_OFFSET == KEY_LEN_OFFSET + 2
HEADER_SIZE == VAL_LEN_OFFSET + 2
BLOCK_SIZE == 512
\* u16::MAX
U16_MAX == 65535

----------------------------------------------------------------------------
\* Option<T>, () and a panic as return values.

None == [tag |-> "None"]
Some(v) == [tag |-> "Some", val |-> v]
Unit == [tag |-> "Unit"]
Panic(msg) == [tag |-> "Panic", msg |-> msg]

\* fresh_allocs once a block has been deallocated.
NotFresh == 0 - 1

\* struct Handle(usize)
Handle(index) == [index |-> index]

----------------------------------------------------------------------------
\* Slices and integer encodings.

\* s[from..to] with 0-based, half-open bounds.
Slice(s, from, to) == SubSeq(s, from + 1, to)

\* s with s[at..at+Len(src)].copy_from_slice(src) applied.
CopyFromSlice(s, at, src) ==
    SubSeq(s, 1, at) \o src \o SubSeq(s, at + Len(src) + 1, Len(s))

\* n bytes b, as vec![b; n].
Repeat(b, n) == SubSeq([i \in 1..n |-> b], 1, n)

\* Fault: a fill that zeroes no more than a record header.
Fill_HeaderOnly(s, from, to, b) ==
    SubSeq(s, 1, from) \o Repeat(b, HEADER_SIZE)
        \o SubSeq(s, from + HEADER_SIZE + 1, Len(s))

\* Fault: a fill that runs over the whole sequence.
Fill_Everything(s, from, to, b) == Repeat(b, Len(s))

\* Fault: a fill that stops one byte short of the end of the range.
Fill_ShortByOne(s, from, to, b) ==
    SubSeq(s, 1, from) \o Repeat(b, to - from - 1) \o SubSeq(s, to, Len(s))

\* s with s[from..to].fill(b) applied.
Fill(s, from, to, b) ==
    SubSeq(s, 1, from) \o Repeat(b, to - from) \o SubSeq(s, to + 1, Len(s))

\* n.to_le_bytes() for an unsigned integer of `width` bytes.
RECURSIVE to_le_bytes(_, _)
to_le_bytes(n, width) ==
    IF width = 0 THEN <<>>
    ELSE <<n % 256>> \o to_le_bytes(n \div 256, width - 1)

\* uN::from_le_bytes(bytes)
RECURSIVE from_le_bytes(_)
from_le_bytes(bytes) ==
    IF bytes = <<>> THEN 0
    ELSE Head(bytes) + 256 * from_le_bytes(Tail(bytes))

\* `n as u16`
AsU16(n) == n % (U16_MAX + 1)

----------------------------------------------------------------------------
\* The slab's methods as functions of the slab's fields.

\* Fault: the freelist initialised in ascending order.
init_freelist_Ascending(n) == SubSeq([i \in 1..n |-> i - 1], 1, n)

\* Fault: the freelist initialised with the indices 1..n instead of 0..n-1.
init_freelist_FromOne(n) == SubSeq([i \in 1..n |-> n - i + 1], 1, n)

RECURSIVE init_freelist(_)
init_freelist(n) ==
    IF n = 0 THEN <<>>
    ELSE <<n - 1>> \o init_freelist(n - 1)

\* Fault: the block count rounded up instead of truncated.
new_RoundUp(capacity_bytes) ==
    LET blocks == (capacity_bytes + BLOCK_SIZE - 1) \div BLOCK_SIZE
    IN  [region |-> Repeat(0, blocks * BLOCK_SIZE),
         total_blocks |-> blocks,
         free_list |-> init_freelist(blocks)]

new(capacity_bytes) ==
    LET blocks == capacity_bytes \div BLOCK_SIZE
    IN  [region |-> Repeat(0, blocks * BLOCK_SIZE),
         total_blocks |-> blocks,
         free_list |-> init_freelist(blocks)]

\* Whether s[from..to] is a valid range of s; indexing a slice with any other
\* range panics.
InBounds(s, from, to) == from <= to /\ to <= Len(s)

\* Fault: the range guard written with > instead of >=.
OutOfRange_OffByOne(slab, index) == index > slab.total_blocks

\* `index >= self.total_blocks`, the guard at the head of every method that
\* takes a handle.
OutOfRange(slab, index) == index >= slab.total_blocks

\* The two length checks at the head of allocate.
TooLong(key, value) == Len(key) > U16_MAX \/ Len(value) > U16_MAX

\* Fault: a required size that leaves the value out.
Required_KeyOnly(key, value) == HEADER_SIZE + Len(key)

Required(key, value) == HEADER_SIZE + Len(key) + Len(value)

\* Fault: the two length fields written at each other's offset.
EncodeBlock_SwappedLengths(block, key, value, ttl) ==
    LET b1 == CopyFromSlice(block, TTL_OFFSET, to_le_bytes(ttl, TTL_SIZE))
        key_len == AsU16(Len(key))
        val_len == AsU16(Len(value))
        b2 == CopyFromSlice(b1, VAL_LEN_OFFSET, to_le_bytes(key_len, 2))
        b3 == CopyFromSlice(b2, KEY_LEN_OFFSET, to_le_bytes(val_len, 2))
        key_start == HEADER_SIZE
        key_end == key_start + Len(key)
        val_start == key_end
        val_end == val_start + Len(value)
    IN  IF ~InBounds(block, key_start, key_end)
        THEN [block |-> b3, ok |-> FALSE]
        ELSE IF ~InBounds(block, val_start, val_end)
        THEN [block |-> CopyFromSlice(b3, key_start, key), ok |-> FALSE]
        ELSE [block |-> CopyFromSlice(CopyFromSlice(b3, key_start, key),
                                      val_start, value),
              ok |-> TRUE]

\* allocate's writes into the block it popped, in the source's order.  ok is
\* FALSE when a range of the block is out of bounds, which panics with the
\* earlier writes done.
EncodeBlock(block, key, value, ttl) ==
    LET b1 == CopyFromSlice(block, TTL_OFFSET, to_le_bytes(ttl, TTL_SIZE))
        key_len == AsU16(Len(key))
        val_len == AsU16(Len(value))
        b2 == CopyFromSlice(b1, KEY_LEN_OFFSET, to_le_bytes(key_len, 2))
        b3 == CopyFromSlice(b2, VAL_LEN_OFFSET, to_le_bytes(val_len, 2))
        key_start == HEADER_SIZE
        key_end == key_start + Len(key)
        val_start == key_end
        val_end == val_start + Len(value)
    IN  IF ~InBounds(block, key_start, key_end)
        THEN [block |-> b3, ok |-> FALSE]
        ELSE IF ~InBounds(block, val_start, val_end)
        THEN [block |-> CopyFromSlice(b3, key_start, key), ok |-> FALSE]
        ELSE [block |-> CopyFromSlice(CopyFromSlice(b3, key_start, key),
                                      val_start, value),
              ok |-> TRUE]

\* Fault: a pop that reads the last element and leaves it in the list.
PopRest_Keep(list) == list

\* Vec::pop: the last element and the rest.
PopIndex(list) == list[Len(list)]
PopRest(list) == SubSeq(list, 1, Len(list) - 1)

\* Fault: the index popped before the lengths are validated.
allocate_PopFirst(slab, key, value, ttl) ==
    IF Len(slab.free_list) = 0 THEN [slab |-> slab, ret |-> None]
    ELSE
        LET index == PopIndex(slab.free_list)
            popped == [slab EXCEPT !.free_list = PopRest(slab.free_list)]
            offset == index * BLOCK_SIZE
        IN  IF TooLong(key, value) THEN [slab |-> popped, ret |-> None]
            ELSE IF Required(key, value) > BLOCK_SIZE
            THEN [slab |-> popped, ret |-> None]
            ELSE IF ~InBounds(slab.region, offset, offset + BLOCK_SIZE)
            THEN [slab |-> popped, ret |-> Panic("range out of bounds")]
            ELSE
                LET block == Slice(slab.region, offset, offset + BLOCK_SIZE)
                    enc == EncodeBlock(block, key, value, ttl)
                IN  [slab |-> [popped EXCEPT
                                !.region = CopyFromSlice(slab.region, offset, enc.block)],
                     ret |-> IF enc.ok THEN Some(Handle(index))
                             ELSE Panic("range out of bounds")]

allocate(slab, key, value, ttl) ==
    IF TooLong(key, value) THEN [slab |-> slab, ret |-> None]
    ELSE IF Required(key, value) > BLOCK_SIZE THEN [slab |-> slab, ret |-> None]
    ELSE IF Len(slab.free_list) = 0 THEN [slab |-> slab, ret |-> None]
    ELSE
        LET index == PopIndex(slab.free_list)
            popped == [slab EXCEPT !.free_list = PopRest(slab.free_list)]
            offset == index * BLOCK_SIZE
        IN  IF ~InBounds(slab.region, offset, offset + BLOCK_SIZE)
            THEN [slab |-> popped, ret |-> Panic("range out of bounds")]
            ELSE
                LET block == Slice(slab.region, offset, offset + BLOCK_SIZE)
                    enc == EncodeBlock(block, key, value, ttl)
                IN  [slab |-> [popped EXCEPT
                                !.region = CopyFromSlice(slab.region, offset, enc.block)],
                     ret |-> IF enc.ok THEN Some(Handle(index))
                             ELSE Panic("range out of bounds")]

\* Fault: get_value refusing a record that ends at the last byte of the block.
get_value_StrictBound(slab, handle) ==
    LET index == handle.index
        offset == index * BLOCK_SIZE
    IN  IF OutOfRange(slab, index) THEN None
        ELSE IF ~InBounds(slab.region, offset, offset + BLOCK_SIZE)
        THEN Panic("range out of bounds")
        ELSE
            LET block == Slice(slab.region, offset, offset + BLOCK_SIZE)
                key_len == from_le_bytes(Slice(block, KEY_LEN_OFFSET, KEY_LEN_OFFSET + 2))
                val_len == from_le_bytes(Slice(block, VAL_LEN_OFFSET, VAL_LEN_OFFSET + 2))
                val_start == HEADER_SIZE + key_len
                val_end == val_start + val_len
            IN  IF val_end >= BLOCK_SIZE THEN None
                ELSE Some(Slice(block, val_start, val_end))

\* Fault: get_value taking the value to start right after the header.
get_value_ValueAtHeader(slab, handle) ==
    LET index == handle.index
        offset == index * BLOCK_SIZE
    IN  IF OutOfRange(slab, index) THEN None
        ELSE IF ~InBounds(slab.region, offset, offset + BLOCK_SIZE)
        THEN Panic("range out of bounds")
        ELSE
            LET block == Slice(slab.region, offset, offset + BLOCK_SIZE)
                val_len == from_le_bytes(Slice(block, VAL_LEN_OFFSET, VAL_LEN_OFFSET + 2))
                val_start == HEADER_SIZE
                val_end == val_start + val_len
            IN  IF val_end > BLOCK_SIZE THEN None
                ELSE Some(Slice(block, val_start, val_end))

get_value(slab, handle) ==
    LET index == handle.index
        offset == index * BLOCK_SIZE
    IN  IF OutOfRange(slab, index) THEN None
        ELSE IF ~InBounds(slab.region, offset, offset + BLOCK_SIZE)
        THEN Panic("range out of bounds")
        ELSE
            LET block == Slice(slab.region, offset, offset + BLOCK_SIZE)
                key_len == from_le_bytes(Slice(block, KEY_LEN_OFFSET, KEY_LEN_OFFSET + 2))
                val_len == from_le_bytes(Slice(block, VAL_LEN_OFFSET, VAL_LEN_OFFSET + 2))
                val_start == HEADER_SIZE + key_len
                val_end == val_start + val_len
            IN  IF val_end > BLOCK_SIZE THEN None
                ELSE Some(Slice(block, val_start, val_end))

get_meta(slab, handle) ==
    LET index == handle.index
        offset == index * BLOCK_SIZE
    IN  IF OutOfRange(slab, index) THEN None
        ELSE IF ~InBounds(slab.region, offset, offset + BLOCK_SIZE)
        THEN Panic("range out of bounds")
        ELSE
            LET block == Slice(slab.region, offset, offset + BLOCK_SIZE)
                ttl == from_le_bytes(Slice(block, TTL_OFFSET, TTL_OFFSET + TTL_SIZE))
                key_len == from_le_bytes(Slice(block, KEY_LEN_OFFSET, KEY_LEN_OFFSET + 2))
                val_len == from_le_bytes(Slice(block, VAL_LEN_OFFSET, VAL_LEN_OFFSET + 2))
                key_start == HEADER_SIZE
                key_end == key_start + key_len
                val_start == key_end
                val_end == val_start + val_len
            IN  IF val_end > BLOCK_SIZE THEN None
                ELSE Some(<<ttl, Slice(block, key_start, key_end),
                            Slice(block, val_start, val_end)>>)

\* Fault: a membership test that looks at the top of the stack only.
Contains_TopOnly(list, index) == Len(list) > 0 /\ list[Len(list)] = index

\* free_list.contains(&index)
Contains(list, index) == \E i \in 1..Len(list) : list[i] = index

\* Fault: deallocate without the double-free assertion.
deallocate_NoAssert(slab, handle) ==
    LET index == handle.index
        offset == index * BLOCK_SIZE
    IN  IF OutOfRange(slab, index) THEN [slab |-> slab, ret |-> Unit]
        ELSE IF ~InBounds(slab.region, offset, offset + BLOCK_SIZE)
        THEN [slab |-> slab, ret |-> Panic("range out of bounds")]
        ELSE [slab |-> [slab EXCEPT
                        !.region = Fill(slab.region, offset, offset + BLOCK_SIZE, 0),
                        !.free_list = Append(slab.free_list, index)],
              ret |-> Unit]

\* Fault: deallocate with the assertion inverted.
deallocate_InvertedAssert(slab, handle) ==
    LET index == handle.index
        offset == index * BLOCK_SIZE
    IN  IF OutOfRange(slab, index) THEN [slab |-> slab, ret |-> Unit]
        ELSE IF ~Contains(slab.free_list, index)
        THEN [slab |-> slab, ret |-> Panic("block already freed")]
        ELSE [slab |-> [slab EXCEPT
                        !.region = Fill(slab.region, offset, offset + BLOCK_SIZE, 0),
                        !.free_list = Append(slab.free_list, index)],
              ret |-> Unit]

\* Fault: deallocate that puts the index at the bottom of the freelist.
deallocate_PushFront(slab, handle) ==
    LET index == handle.index
        offset == index * BLOCK_SIZE
    IN  IF OutOfRange(slab, index) THEN [slab |-> slab, ret |-> Unit]
        ELSE IF Contains(slab.free_list, index)
        THEN [slab |-> slab, ret |-> Panic("block already freed")]
        ELSE [slab |-> [slab EXCEPT
                        !.region = Fill(slab.region, offset, offset + BLOCK_SIZE, 0),
                        !.free_list = <<index>> \o slab.free_list],
              ret |-> Unit]

\* Fault: deallocate without the zero-fill.
deallocate_NoFill(slab, handle) ==
    LET index == handle.index
    IN  IF OutOfRange(slab, index) THEN [slab |-> slab, ret |-> Unit]
        ELSE IF Contains(slab.free_list, index)
        THEN [slab |-> slab, ret |-> Panic("block already freed")]
        ELSE [slab |-> [slab EXCEPT !.free_list = Append(slab.free_list, index)],
              ret |-> Unit]

deallocate(slab, handle) ==
    LET index == handle.index
        offset == index * BLOCK_SIZE
    IN  IF OutOfRange(slab, index) THEN [slab |-> slab, ret |-> Unit]
        ELSE IF Contains(slab.free_list, index)
        THEN [slab |-> slab, ret |-> Panic("block already freed")]
        ELSE IF ~InBounds(slab.region, offset, offset + BLOCK_SIZE)
        THEN [slab |-> slab, ret |-> Panic("range out of bounds")]
        ELSE [slab |-> [slab EXCEPT
                        !.region = Fill(slab.region, offset, offset + BLOCK_SIZE, 0),
                        !.free_list = Append(slab.free_list, index)],
              ret |-> Unit]

\* A String is the sequence of its characters' codes.

\* One lower-case hexadecimal digit.
HexDigit(d) == IF d < 10 THEN 48 + d ELSE 97 + (d - 10)

\* format!("{:0width$x}", n): the hexadecimal digits of n, zero-padded on the
\* left to at least `width` characters.
RECURSIVE LowerHex(_, _)
LowerHex(n, width) ==
    IF n < 16 THEN Repeat(48, IF width > 1 THEN width - 1 ELSE 0) \o <<HexDigit(n)>>
    ELSE LowerHex(n \div 16, width - 1) \o <<HexDigit(n % 16)>>

\* format!("{:<width$}", s): s padded with spaces on the right.
PadRight(s, width) ==
    IF Len(s) >= width THEN s ELSE s \o Repeat(32, width - Len(s))

\* format!("{:02x} ", b) of every byte b, at position b + 1.
HexCell == SubSeq([j \in 1..256 |-> LowerHex(j - 1, 2) \o <<32>>], 1, 256)

\* chunk.iter().map(|b| format!("{:02x} ", b)).collect()
RECURSIVE HexCells(_)
HexCells(chunk) ==
    IF chunk = <<>> THEN <<>>
    ELSE HexCell[Head(chunk) + 1] \o HexCells(Tail(chunk))

\* b.is_ascii_graphic() || b == b' ' then the byte's character, else '.'
AsciiCell(b) == IF (b >= 33 /\ b <= 126) \/ b = 32 THEN b ELSE 46

AsciiCells(chunk) == SubSeq([j \in 1..Len(chunk) |-> AsciiCell(chunk[j])], 1, Len(chunk))

\* format!("{:04x}: {:<48} {}\n", i * 16, hex, ascii) for the i-th chunk.
DumpLine(i, chunk) ==
    LowerHex(i * 16, 4) \o <<58, 32>> \o PadRight(HexCells(chunk), 48)
        \o <<32>> \o AsciiCells(chunk) \o <<10>>

\* The lines of block.chunks(16), from chunk i on.
RECURSIVE DumpFrom(_, _)
DumpFrom(block, i) ==
    IF i * 16 >= Len(block) THEN <<>>
    ELSE LET to == IF i * 16 + 16 <= Len(block) THEN i * 16 + 16 ELSE Len(block)
         IN  DumpLine(i, Slice(block, i * 16, to)) \o DumpFrom(block, i + 1)

\* Fault: a dump that also returns nothing for a free block.
debug_dump_FreeIsNone(slab, handle) ==
    LET index == handle.index
        offset == index * BLOCK_SIZE
    IN  IF OutOfRange(slab, index) THEN None
        ELSE IF Contains(slab.free_list, index) THEN None
        ELSE IF ~InBounds(slab.region, offset, offset + BLOCK_SIZE)
        THEN Panic("range out of bounds")
        ELSE Some(DumpFrom(Slice(slab.region, offset, offset + BLOCK_SIZE), 0))

debug_dump(slab, handle) ==
    LET index == handle.index
        offset == index * BLOCK_SIZE
    IN  IF OutOfRange(slab, index) THEN None
        ELSE IF ~InBounds(slab.region, offset, offset + BLOCK_SIZE)
        THEN Panic("range out of bounds")
        ELSE Some(DumpFrom(Slice(slab.region, offset, offset + BLOCK_SIZE), 0))

----------------------------------------------------------------------------
\* Inputs of the calls.

\* 2^16 bytes: one more than a u16 length field can hold.
RECURSIVE Doubled(_, _)
Doubled(s, times) == IF times = 0 THEN s ELSE Doubled(s \o s, times - 1)
Oversized == Doubled(<<7>>, 16)

\* A run of n non-zero bytes.
Run(n) == SubSeq([i \in 1..n |-> (i % 255) + 1], 1, n)

\* b"key", b"value"
KeyBytes == <<107, 101, 121>>
ValueBytes == <<118, 97, 108, 117, 101>>

\* Keys and values a caller passes, by position.  With b"value" the third key
\* makes a record of exactly BLOCK_SIZE bytes and the fourth one of
\* BLOCK_SIZE + 1.
Keys == << <<>>, KeyBytes, Run(BLOCK_SIZE - HEADER_SIZE - 5),
           Run(BLOCK_SIZE - HEADER_SIZE - 4), Oversized >>
Values == << <<>>, ValueBytes, Oversized >>
\* TTL markers: the test's 1, and 0x01020304 (four distinct bytes).
TTLs == {1, 16909060}

\* The allocate calls a caller makes, <<key, value, ttl>>: every key with every
\* value at TTL 1, and b"key"/b"value" at every TTL.
AllocCalls ==
    {<<k, v, 1>> : k \in DOMAIN Keys, v \in DOMAIN Values}
        \cup {<<2, 2, ttl>> : ttl \in TTLs}

\* capacity_bytes passed to new: multiples of the block size and one byte less
\* than the next multiple.
Capacities ==
    {b * BLOCK_SIZE + r : b \in 0..MaxBlocks, r \in {0, BLOCK_SIZE - 1}}

\* Handles a caller may hold: every block index of the largest slab and the
\* first index past it.
Handles == {Handle(i) : i \in 0..MaxBlocks}

----------------------------------------------------------------------------
\* The state machine.

Self == [region |-> region, total_blocks |-> total_blocks, free_list |-> free_list]

Store(slab) ==
    /\ region' = slab.region
    /\ total_blocks' = slab.total_blocks
    /\ free_list' = slab.free_list

\* No deallocate in progress.
Idle == [pc |-> "idle"]

\* A caller's reuse history: last_freed is the index of the latest successful
\* deallocate while no allocate has succeeded since (NoIndex otherwise); reused
\* holds the occupied indices whose allocate returned what last_freed named;
\* stale tells that the latest successful deallocate freed an index of reused.
NoIndex == 0 - 1
NoReuse == [last_freed |-> NoIndex, reused |-> {}, stale |-> FALSE]

Init ==
    \E c \in Capacities :
        /\ region = new(c).region
        /\ total_blocks = new(c).total_blocks
        /\ free_list = new(c).free_list
        /\ call = [op |-> "new", capacity_bytes |-> c]
        /\ ret = Unit
        /\ live = {}
        /\ fresh_allocs = 0
        /\ stored = <<>>
        /\ inflight = Idle
        /\ reuse = NoReuse

\* stored with index i mapped to record rec / with index i removed.
StoredWith(i, rec) ==
    [j \in (DOMAIN stored) \cup {i} |-> IF j = i THEN rec ELSE stored[j]]
StoredWithout(i) == [j \in (DOMAIN stored) \ {i} |-> stored[j]]

\* One call allocate(Keys[a[1]], Values[a[2]], a[3]).
AllocateCall(a) ==
    LET r == allocate(Self, Keys[a[1]], Values[a[2]], a[3])
    IN  /\ Store(r.slab)
        /\ call' = [op |-> "allocate", key |-> a[1], value |-> a[2], ttl |-> a[3]]
        /\ ret' = r.ret
        /\ live' = IF r.ret.tag = "Some" THEN live \cup {r.ret.val.index}
                   ELSE live
        /\ fresh_allocs' = IF r.ret.tag = "Some" /\ fresh_allocs # NotFresh
                           THEN fresh_allocs + 1
                           ELSE fresh_allocs
        /\ stored' = IF r.ret.tag = "Some" THEN StoredWith(r.ret.val.index, a)
                     ELSE stored

Allocate ==
    \E a \in AllocCalls :
        /\ AllocateCall(a)
        /\ UNCHANGED <<inflight, reuse>>

GetValue ==
    \E h \in Handles :
        /\ call' = [op |-> "get_value", handle |-> h]
        /\ ret' = get_value(Self, h)
        /\ UNCHANGED <<region, total_blocks, free_list, live, fresh_allocs,
                       stored, inflight, reuse>>

GetMeta ==
    \E h \in Handles :
        /\ call' = [op |-> "get_meta", handle |-> h]
        /\ ret' = get_meta(Self, h)
        /\ UNCHANGED <<region, total_blocks, free_list, live, fresh_allocs,
                       stored, inflight, reuse>>

DebugDump ==
    \E h \in Handles :
        /\ call' = [op |-> "debug_dump", handle |-> h]
        /\ ret' = debug_dump(Self, h)
        /\ UNCHANGED <<region, total_blocks, free_list, live, fresh_allocs,
                       stored, inflight, reuse>>

\* One call deallocate(h).
DeallocateCall(h) ==
    LET r == deallocate(Self, h)
        freed == r.ret.tag = "Unit" /\ r.slab.free_list # free_list
    IN  /\ Store(r.slab)
        /\ call' = [op |-> "deallocate", handle |-> h]
        /\ ret' = r.ret
        /\ live' = IF freed THEN live \ {h.index} ELSE live
        /\ fresh_allocs' = IF freed THEN NotFresh ELSE fresh_allocs
        /\ stored' = IF freed THEN StoredWithout(h.index) ELSE stored

Deallocate ==
    \E h \in Handles :
        /\ DeallocateCall(h)
        /\ UNCHANGED <<inflight, reuse>>

Next == Allocate \/ GetValue \/ GetMeta \/ Deallocate

Spec == Init /\ [][Next]_vars

----------------------------------------------------------------------------
\* deallocate, one statement at a time, with readers in between its statements.

\* A call that has not returned yet.
Running == [tag |-> "Running"]

\* The checks that open deallocate: the early return of an out-of-range index
\* and the assertion; pc tells where the call goes on.
deallocate_check(slab, handle) ==
    LET index == handle.index
    IN  IF OutOfRange(slab, index) THEN [pc |-> "idle", ret |-> Unit]
        ELSE IF Contains(slab.free_list, index)
        THEN [pc |-> "idle", ret |-> Panic("block already freed")]
        ELSE [pc |-> "fill", ret |-> Running]

\* Fault: the push before the zero-fill.
deallocate_statement_PushFirst(slab, handle, pc) ==
    LET index == handle.index
        offset == index * BLOCK_SIZE
    IN  IF pc = "fill"
        THEN [slab EXCEPT !.free_list = Append(slab.free_list, index)]
        ELSE [slab EXCEPT
              !.region = Fill(slab.region, offset, offset + BLOCK_SIZE, 0)]

\* The statement of deallocate at pc: the zero-fill, then the push.
deallocate_statement(slab, handle, pc) ==
    LET index == handle.index
        offset == index * BLOCK_SIZE
    IN  IF pc = "fill"
        THEN [slab EXCEPT
              !.region = Fill(slab.region, offset, offset + BLOCK_SIZE, 0)]
        ELSE [slab EXCEPT !.free_list = Append(slab.free_list, index)]

\* The records of these callers: b"key"/b"value", the record that fills a block
\* to its last byte, and one that is a byte too long.
StepCalls == {<<2, 2, 1>>, <<3, 2, 1>>, <<4, 2, 1>>}

\* allocate runs between whole calls of deallocate.
SerialAllocate ==
    /\ inflight = Idle
    /\ \E a \in StepCalls :
        /\ AllocateCall(a)
        /\ UNCHANGED <<inflight, reuse>>

DeallocateEnter ==
    /\ inflight = Idle
    /\ \E h \in Handles :
        LET c == deallocate_check(Self, h)
        IN  /\ inflight' = IF c.pc = "idle" THEN Idle
                           ELSE [pc |-> c.pc, handle |-> h]
            /\ call' = [op |-> "deallocate", handle |-> h]
            /\ ret' = c.ret
            /\ UNCHANGED <<region, total_blocks, free_list, live, fresh_allocs,
                           stored, reuse>>

DeallocateFill ==
    /\ inflight.pc = "fill"
    /\ Store(deallocate_statement(Self, inflight.handle, "fill"))
    /\ inflight' = [pc |-> "push", handle |-> inflight.handle]
    /\ UNCHANGED <<call, ret, live, fresh_allocs, stored, reuse>>

DeallocatePush ==
    /\ inflight.pc = "push"
    /\ Store(deallocate_statement(Self, inflight.handle, "push"))
    /\ inflight' = Idle
    /\ call' = [op |-> "deallocate", handle |-> inflight.handle]
    /\ ret' = Unit
    /\ live' = live \ {inflight.handle.index}
    /\ fresh_allocs' = NotFresh
    /\ stored' = StoredWithout(inflight.handle.index)
    /\ UNCHANGED reuse

NextSteps ==
    \/ SerialAllocate
    \/ GetValue
    \/ GetMeta
    \/ DebugDump
    \/ DeallocateEnter
    \/ DeallocateFill
    \/ DeallocatePush

SpecSteps == Init /\ [][NextSteps]_vars

----------------------------------------------------------------------------
\* Callers of whole calls who also dump blocks.

NextDump == SerialAllocate \/ GetValue \/ GetMeta \/ Deallocate \/ DebugDump

SpecDump == Init /\ [][NextDump]_vars

----------------------------------------------------------------------------
\* Callers that keep track of the blocks they freed and got back.

ReuseAllocate ==
    \E a \in StepCalls :
        /\ AllocateCall(a)
        /\ reuse' = IF ret'.tag = "Some"
                    THEN [last_freed |-> NoIndex,
                          reused |-> IF reuse.last_freed = ret'.val.index
                                     THEN reuse.reused \cup {ret'.val.index}
                                     ELSE reuse.reused,
                          stale |-> FALSE]
                    ELSE reuse
        /\ UNCHANGED inflight

ReuseDeallocate ==
    \E h \in Handles :
        /\ DeallocateCall(h)
        /\ reuse' = IF free_list' # free_list
                    THEN [last_freed |-> h.index,
                          reused |-> reuse.reused \ {h.index},
                          stale |-> h.index \in reuse.reused]
                    ELSE reuse
        /\ UNCHANGED inflight

NextReuse == ReuseAllocate \/ GetValue \/ GetMeta \/ ReuseDeallocate

SpecReuse == Init /\ [][NextReuse]_vars

----------------------------------------------------------------------------
\* Vocabulary of the properties.

\* The arguments of the last call, when it was an allocate.
ArgKey == Keys[call.key]
ArgValue == Values[call.value]

\* The raw bytes of block i of the region.
BlockBytes(i) == SubSeq(region, i * BLOCK_SIZE + 1, (i + 1) * BLOCK_SIZE)

IsZero(bytes) == \A i \in 1..Len(bytes) : bytes[i] = 0

\* The set of indices in the freelist.
FreeSet == {free_list[i] : i \in 1..Len(free_list)}

\* A key/value pair that fits one block: 12+|K|+|V| <= BLOCK_SIZE and
\* |K|,|V| <= 65535.
FitsBlock(key, value) ==
    /\ Len(key) <= 65535
    /\ Len(value) <= 65535
    /\ 12 + Len(key) + Len(value) <= BLOCK_SIZE

----------------------------------------------------------------------------
\* C1 (round trip): whenever allocate(K,V,T) is called with a key and value
\* that fit a block, in a state whose freelist is not empty, it returns a
\* Handle H, and right after the call get_value(H) is V and get_meta(H) is
\* (T, K, V).
C1_RoundTrip ==
    [][(/\ call'.op = "allocate"
        /\ FitsBlock(ArgKey', ArgValue')
        /\ Len(free_list) > 0)
       => /\ ret'.tag = "Some"
          /\ get_value(Self', ret'.val) = Some(ArgValue')
          /\ get_meta(Self', ret'.val) = Some(<<call'.ttl, ArgKey', ArgValue'>>)]_vars

\* An allocate of a record filling its block exactly, into a block that was
\* used and freed before, has returned a handle.
C1_Witness ==
    /\ call.op = "allocate"
    /\ ret.tag = "Some"
    /\ 12 + Len(ArgKey) + Len(ArgValue) = BLOCK_SIZE
    /\ fresh_allocs = NotFresh

\* C2 (freelist partition): no index is twice in the freelist, and the freelist
\* indices and the occupied indices (returned by allocate, not deallocated
\* since) are disjoint and together are exactly the block indices
\* 0 .. total_blocks-1.
C2_FreelistPartition ==
    /\ \A i, j \in 1..Len(free_list) : i # j => free_list[i] # free_list[j]
    /\ FreeSet \cap live = {}
    /\ FreeSet \cup live = 0..(total_blocks - 1)

\* A double free has just panicked on a slab holding both free and occupied
\* blocks.
C2_Witness ==
    /\ call.op = "deallocate"
    /\ ret.tag = "Panic"
    /\ live # {}
    /\ free_list # <<>>

\* C3 (double-free fatality): deallocate of an in-range handle whose index is
\* in the freelist panics, and leaves the region and the freelist as they were.
C3_DoubleFreeFatal ==
    [][(/\ call'.op = "deallocate"
        /\ call'.handle.index < total_blocks
        /\ call'.handle.index \in FreeSet)
       => /\ ret'.tag = "Panic"
          /\ region' = region
          /\ free_list' = free_list]_vars

\* The second of two deallocates of a handle has panicked: the slab has one
\* block, a block has been deallocated, and the block is free.
C3_Witness ==
    /\ call.op = "deallocate"
    /\ ret.tag = "Panic"
    /\ total_blocks = 1
    /\ fresh_allocs = NotFresh
    /\ live = {}

\* C4 (failed allocate is atomic): allocate with a key or value longer than
\* 65535 bytes, or a record larger than a block, or on an empty freelist,
\* returns nothing and leaves the region, the freelist and the block count as
\* they were.
C4_FailedAllocateAtomic ==
    [][(/\ call'.op = "allocate"
        /\ \/ Len(ArgKey') > 65535
           \/ Len(ArgValue') > 65535
           \/ 12 + Len(ArgKey') + Len(ArgValue') > BLOCK_SIZE
           \/ Len(free_list) = 0)
       => /\ ret'.tag = "None"
          /\ region' = region
          /\ free_list' = free_list
          /\ total_blocks' = total_blocks]_vars

\* An allocate with a key of more than 65535 bytes has returned nothing on a
\* slab with free blocks and an occupied block.
C4_Witness ==
    /\ call.op = "allocate"
    /\ ret.tag = "None"
    /\ Len(ArgKey) > 65535
    /\ free_list # <<>>
    /\ live # {}

\* C5 (exhaustion): after total_blocks successful allocations and no
\* deallocation, allocate returns nothing whatever the key and value; and an
\* allocate whose key and value fit a block returns a Handle if and only if the
\* freelist is not empty.
C5_Exhaustion ==
    [][call'.op = "allocate"
       => /\ fresh_allocs = total_blocks => ret'.tag = "None"
          /\ FitsBlock(ArgKey', ArgValue')
                => (ret'.tag = "Some" <=> Len(free_list) > 0)]_vars

\* The third allocate on a fresh slab of two blocks, with a fitting key and
\* value, has returned nothing.
C5_Witness ==
    /\ call.op = "allocate"
    /\ ret.tag = "None"
    /\ FitsBlock(ArgKey, ArgValue)
    /\ total_blocks = 2
    /\ fresh_allocs = total_blocks

\* C6 (conservation): a successful allocate shrinks the freelist by one and a
\* successful deallocate grows it by one; after N successful allocations on a
\* fresh slab the freelist holds total_blocks - N entries, and deallocating one
\* of the N handles then leaves total_blocks - N + 1.
C6_Conservation ==
    [][/\ (call'.op = "allocate" /\ ret'.tag = "Some")
            => Len(free_list') = Len(free_list) - 1
       /\ (/\ call'.op = "deallocate"
           /\ call'.handle.index < total_blocks
           /\ ret'.tag = "Unit")
            => Len(free_list') = Len(free_list) + 1
       /\ fresh_allocs' # NotFresh
            => Len(free_list') = total_blocks' - fresh_allocs'
       /\ (/\ fresh_allocs # NotFresh
           /\ call'.op = "deallocate"
           /\ call'.handle.index \in live)
            => Len(free_list') = total_blocks - fresh_allocs + 1]_vars

\* On a slab of two blocks, one of two occupied blocks has been deallocated and
\* one entry is in the freelist.
C6_Witness ==
    /\ call.op = "deallocate"
    /\ ret.tag = "Unit"
    /\ call.handle.index < total_blocks
    /\ total_blocks = 2
    /\ Cardinality(live) = 1
    /\ Len(free_list) = 1

\* C7 (out-of-range handles): with a handle whose index is >= total_blocks,
\* get_value and get_meta return nothing, and deallocate returns normally and
\* changes neither the region nor the freelist.
C7_OutOfRange ==
    [][(/\ call'.op \in {"get_value", "get_meta", "deallocate"}
        /\ call'.handle.index >= total_blocks)
       => /\ call'.op \in {"get_value", "get_meta"} => ret'.tag = "None"
          /\ call'.op = "deallocate"
                => /\ ret'.tag = "Unit"
                   /\ region' = region
                   /\ free_list' = free_list]_vars

\* deallocate has been called with the first index past the blocks, on a slab
\* with an occupied block.
C7_Witness ==
    /\ call.op = "deallocate"
    /\ call.handle.index = total_blocks
    /\ ret.tag = "Unit"
    /\ live # {}

\* C8 (free blocks are zeroed): every block whose index is in the freelist is
\* all zero bytes, and right after a successful deallocate(H) the block of H is
\* all zero bytes.
C8_FreeBlocksZeroed ==
    /\ \A i \in FreeSet : IsZero(BlockBytes(i))
    /\ (/\ call.op = "deallocate"
        /\ call.handle.index < total_blocks
        /\ ret.tag = "Unit")
       => IsZero(BlockBytes(call.handle.index))

\* An occupied block has just been deallocated while another block is occupied.
C8_Witness ==
    /\ call.op = "deallocate"
    /\ call.handle.index < total_blocks
    /\ ret.tag = "Unit"
    /\ live # {}

\* C9 (stale-handle read): through an in-range handle whose block is not
\* occupied (deallocated and not allocated again), get_value returns an empty
\* value and get_meta returns (0, empty key, empty value); neither returns
\* nothing.
C9_StaleRead ==
    /\ (/\ call.op = "get_value"
        /\ call.handle.index < total_blocks
        /\ call.handle.index \notin live)
       => ret = Some(<<>>)
    /\ (/\ call.op = "get_meta"
        /\ call.handle.index < total_blocks
        /\ call.handle.index \notin live)
       => ret = Some(<<0, <<>>, <<>>>>)

\* get_meta has read block 0 of a one-block slab after the block was allocated
\* and deallocated.
C9_Witness ==
    /\ call.op = "get_meta"
    /\ call.handle.index = 0
    /\ total_blocks = 1
    /\ fresh_allocs = NotFresh
    /\ live = {}

\* The u16 length fields stored at offsets 8 and 10 of block i.
StoredKeyLen(i) == BlockBytes(i)[8 + 1] + 256 * BlockBytes(i)[9 + 1]
StoredValLen(i) == BlockBytes(i)[10 + 1] + 256 * BlockBytes(i)[11 + 1]

\* C10 (record size): every occupied block (a block whose index is not in the
\* freelist) stores lengths with 12 + KeyLen + ValLen <= BLOCK_SIZE.
C10_RecordSize ==
    \A i \in (0..(total_blocks - 1)) \ FreeSet :
        12 + StoredKeyLen(i) + StoredValLen(i) <= BLOCK_SIZE

\* An occupied block holds a record of exactly BLOCK_SIZE bytes and an allocate
\* of a record one byte larger has just been refused.
C10_Witness ==
    /\ \E i \in live : 12 + StoredKeyLen(i) + StoredValLen(i) = BLOCK_SIZE
    /\ call.op = "allocate"
    /\ ret.tag = "None"
    /\ 12 + Len(ArgKey) + Len(ArgValue) = BLOCK_SIZE + 1
\* C11 (construction): new(capacity_bytes) gives total_blocks =
\* floor(capacity_bytes / BLOCK_SIZE), a region of exactly total_blocks *
\* BLOCK_SIZE zero bytes and a freelist holding each block index once; the block
\* count never changes afterwards, and on a slab of zero blocks (capacity_bytes
\* < BLOCK_SIZE) every allocate returns nothing.
C11_Construction ==
    /\ call.op = "new"
        => /\ total_blocks * BLOCK_SIZE <= call.capacity_bytes
           /\ call.capacity_bytes < (total_blocks + 1) * BLOCK_SIZE
           /\ call.capacity_bytes < BLOCK_SIZE => total_blocks = 0
           /\ Len(region) = total_blocks * BLOCK_SIZE
           /\ IsZero(region)
           /\ Len(free_list) = total_blocks
           /\ FreeSet = 0..(total_blocks - 1)
    /\ [][/\ total_blocks' = total_blocks
          /\ Len(region') = Len(region)
          /\ (total_blocks = 0 /\ call'.op = "allocate") => ret'.tag = "None"]_vars

\* An allocate of a fitting key and value has returned nothing on a slab of
\* zero blocks.
C11_Witness ==
    /\ total_blocks = 0
    /\ call.op = "allocate"
    /\ FitsBlock(ArgKey, ArgValue)
    /\ ret.tag = "None"

\* C12 (allocation order): new leaves the freelist in descending index order,
\* and on a fresh slab the k-th successful allocate returns block index k-1
\* (the first returns block 0).
C12_AllocationOrder ==
    /\ call.op = "new"
        => \A i \in 1..Len(free_list) : free_list[i] = total_blocks - i
    /\ [][(/\ call'.op = "allocate"
           /\ ret'.tag = "Some"
           /\ fresh_allocs # NotFresh)
          => ret'.val.index = fresh_allocs]_vars

\* The second successful allocate on a fresh slab has returned block 1.
C12_Witness ==
    /\ call.op = "allocate"
    /\ ret = Some(Handle(1))
    /\ fresh_allocs = 2

\* C13: get_value, get_meta and debug_dump are pure reads: a call of any of
\* them leaves the region, total_blocks and the freelist as they were; and
\* debug_dump returns nothing exactly when handle.index >= total_blocks, a
\* dump of the block (free or occupied) otherwise.
C13_ReadsPure ==
    [][call'.op \in {"get_value", "get_meta", "debug_dump"} =>
          /\ region' = region
          /\ total_blocks' = total_blocks
          /\ free_list' = free_list
          /\ call'.op = "debug_dump" =>
                /\ ret'.tag = "None" <=> call'.handle.index >= total_blocks
                /\ call'.handle.index < total_blocks => ret'.tag = "Some"]_vars

\* A free block next to an occupied one was dumped, and the dump came back.
C13_Witness ==
    /\ call.op = "debug_dump"
    /\ call.handle.index \in FreeSet
    /\ live # {}
    /\ region # Repeat(0, Len(region))
    /\ ret.tag = "Some"
    /\ Len(ret.val) > 0

\* Block i of a region, and the set of indices of a freelist.
BlockOf(r, i) == SubSeq(r, i * BLOCK_SIZE + 1, (i + 1) * BLOCK_SIZE)
IndicesOf(list) == {list[i] : i \in 1..Len(list)}

\* C14: deallocate checks first, then zero-fills the block, then pushes its
\* index.  Between the last two the block is all zero while its index is not
\* yet in the freelist, and a reader in between sees exactly that: the metadata
\* of the zeroed block.  At no moment is an index in the freelist while its
\* block still holds bytes of the old record.
C14_DeallocateSteps ==
    [][/\ \A i \in IndicesOf(free_list') : IsZero(BlockOf(region', i))
       /\ inflight'.pc = "fill" =>
             /\ inflight'.handle.index < total_blocks'
             /\ inflight'.handle.index \notin IndicesOf(free_list')
             /\ region' = region /\ free_list' = free_list
       /\ inflight'.pc = "push" =>
             /\ inflight'.handle.index \notin IndicesOf(free_list')
             /\ IsZero(BlockOf(region', inflight'.handle.index))
             /\ free_list' = free_list
       /\ inflight.pc = "push" /\ inflight'.pc = "idle" =>
             /\ region' = region
             /\ free_list' = Append(free_list, inflight.handle.index)
       /\ inflight.pc = "push" /\ inflight' = inflight =>
             /\ call'.op = "get_meta" /\ call'.handle = inflight.handle =>
                   ret' = Some(<<0, <<>>, <<>>>>)
             /\ call'.op = "get_value" /\ call'.handle = inflight.handle =>
                   ret' = Some(<<>>)
             /\ call'.op = "debug_dump" /\ call'.handle = inflight.handle =>
                   ret' = Some(DumpFrom(Repeat(0, BLOCK_SIZE), 0))]_vars

\* A reader met the zeroed block of a record with a key while the index was
\* not yet in the freelist.
C14_Witness ==
    /\ inflight.pc = "push"
    /\ call.op = "get_meta"
    /\ call.handle = inflight.handle
    /\ ret = Some(<<0, <<>>, <<>>>>)
    /\ inflight.handle.index \in live
    /\ inflight.handle.index \notin FreeSet
    /\ stored[inflight.handle.index][1] = 2

\* C15: a record stays readable whatever is called on other blocks.  For
\* every index G handed out and not deallocated since, get_meta(G) returns
\* the (T, K, V) its allocate was called with, after any sequence of calls of
\* allocate and deallocate through other handles: successful ones, failed
\* allocations, out-of-range deallocations and double frees alike.
C15_Isolation ==
    \A i \in live :
        /\ i \in DOMAIN stored
        /\ get_meta(Self, Handle(i)) =
              Some(<<stored[i][3], Keys[stored[i][1]], Values[stored[i][2]]>>)
        /\ get_value(Self, Handle(i)) = Some(Values[stored[i][2]])

\* Block 0 holds b"key"/b"value" with the long TTL, and its neighbour was
\* just deallocated.
C15_Witness ==
    /\ live = {0}
    /\ stored[0] = <<2, 2, 16909060>>
    /\ call = [op |-> "deallocate", handle |-> Handle(1)]
    /\ ret = Unit
    /\ fresh_allocs = NotFresh

\* C16: no bytes of an earlier record survive in a block.  In every occupied
\* block (index not in the freelist) all bytes at offsets
\* >= 12 + KeyLen + ValLen are zero, KeyLen and ValLen being the lengths the
\* block stores, also when the block held a longer record before.
C16_NoStaleData ==
    \A i \in 0..(total_blocks - 1) :
        i \notin FreeSet =>
            IsZero(SubSeq(BlockBytes(i),
                          HEADER_SIZE + StoredKeyLen(i) + StoredValLen(i) + 1,
                          BLOCK_SIZE))

\* The only block of a slab holds b"key"/b"value" after it was deallocated
\* and allocated again.
C16_Witness ==
    /\ total_blocks = 1
    /\ fresh_allocs = NotFresh
    /\ live = {0}
    /\ FreeSet = {}
    /\ stored[0] = <<2, 2, 1>>
    /\ call.op = "allocate"
    /\ ret = Some(Handle(0))

\* C17: the freelist is a stack.  After a successful deallocate(H), the next
\* allocate that succeeds, whatever failed or read in between, returns the
\* index of H; and every allocate of a record that fits does succeed then, so
\* on a full slab deallocating a live handle makes the next fitting allocate
\* reuse exactly that block.
C17_LifoReuse ==
    [][call'.op = "allocate" /\ reuse.last_freed # NoIndex =>
          /\ ret'.tag = "Some" => ret'.val.index = reuse.last_freed
          /\ FitsBlock(Keys[call'.key], Values[call'.value]) =>
                ret' = Some(Handle(reuse.last_freed))]_vars

\* Both blocks were occupied, block 0 was deallocated, and the next allocate
\* returned block 0 although block 1 has the higher index.
C17_Witness ==
    /\ total_blocks = 2
    /\ call.op = "allocate"
    /\ ret = Some(Handle(0))
    /\ 0 \in reuse.reused
    /\ live = {0, 1}
    /\ FreeSet = {}

\* C18: deallocate(H) takes the fatal path exactly when H is in range and its
\* index is in the freelist.  So a deallocate through a stale handle, whose
\* index was deallocated and then handed out again for a new record, does not
\* fail: it zeroes the block of the new record and returns its index to the
\* freelist.
C18_StaleHandle ==
    [][call'.op = "deallocate" =>
          LET i == call'.handle.index
          IN  /\ ret'.tag = "Panic" <=> (i < total_blocks /\ i \in FreeSet)
              /\ i \in reuse.reused =>
                    /\ i \in live
                    /\ ret' = Unit
                    /\ IsZero(BlockOf(region', i))
                    /\ free_list' = Append(free_list, i)
                    /\ i \notin live']_vars

\* A block that was freed and handed out again with b"key"/b"value" was freed
\* through a handle of its index, and is zero and in the freelist now.
C18_Witness ==
    /\ call.op = "deallocate"
    /\ ret = Unit
    /\ reuse.stale
    /\ reuse.last_freed = call.handle.index
    /\ call.handle.index \in FreeSet
    /\ IsZero(BlockBytes(call.handle.index))

\* C19: the bound check of the readers never fires.  In every state reached
\* through new, allocate and deallocate, every block in range, occupied or
\* free, stores lengths with 12 + KeyLen + ValLen <= BLOCK_SIZE, so get_value
\* and get_meta return a result for every handle with index < total_blocks;
\* they return nothing only for an index >= total_blocks.
C19_BoundCheckUnreachable ==
    \A h \in Handles :
        /\ h.index < total_blocks =>
              /\ HEADER_SIZE + StoredKeyLen(h.index) + StoredValLen(h.index)
                    <= BLOCK_SIZE
              /\ get_value(Self, h).tag = "Some"
              /\ get_meta(Self, h).tag = "Some"
        /\ get_value(Self, h) = None <=> h.index >= total_blocks
        /\ get_meta(Self, h) = None <=> h.index >= total_blocks

\* Block 0 holds the record that ends at the last byte of the block, block 1
\* is free, and get_meta of block 0 returned a result.
C19_Witness ==
    /\ total_blocks = 2
    /\ live = {0}
    /\ FreeSet = {1}
    /\ HEADER_SIZE + StoredKeyLen(0) + StoredValLen(0) = BLOCK_SIZE
    /\ call = [op |-> "get_meta", handle |-> Handle(0)]
    /\ ret.tag = "Some"
    /\ get_value(Self, Handle(1)) = Some(<<>>)

\* C20: get_value and get_meta agree.  For every handle, in every reachable
\* state, get_value returns nothing exactly when get_meta returns nothing,
\* and otherwise what get_value returns is the value component of what
\* get_meta returns.
C20_ReadersAgree ==
    \A h \in Handles :
        LET v == get_value(Self, h)
            m == get_meta(Self, h)
        IN  /\ v.tag \in {"None", "Some"}
            /\ m.tag \in {"None", "Some"}
            /\ v = None <=> m = None
            /\ v # None => v.val = m.val[3]

\* get_value of a block holding b"key"/b"value" returned b"value", and so
\* does get_meta, while both return nothing for the first index past the end.
C20_Witness ==
    /\ call = [op |-> "get_value", handle |-> Handle(0)]
    /\ ret = Some(ValueBytes)
    /\ 0 \in live
    /\ get_meta(Self, Handle(0)).val[2] = KeyBytes
    /\ get_meta(Self, Handle(0)).val[3] = ValueBytes
    /\ get_value(Self, Handle(total_blocks)) = None
    /\ get_meta(Self, Handle(total_blocks)) = None

====
